---------------------------- MODULE Spec2Model ----------------------------
(***************************************************************************)
(* Model of the beancount language server: the semantic tokens provider   *)
(* (legend negotiation, tree traversal, full and delta encode handlers    *)
(* over per-document SemanticTokensBuilder objects) and the save handler  *)
(* of the server (validator runs, diagnostics publishing).                *)
(***************************************************************************)
EXTENDS Integers, Sequences, FiniteSets, TLC

VARIABLES
    forest,               \* Forest.getByUri: uri -> tree, or Absent
    tokenBuilders,        \* SemanticTokensProvider.tokenBuilders: uri -> builder, or NoBuilder
    clock,                \* Date.now(), read by SemanticTokensBuilder.initialize
    response,             \* the last handler call: its request, what it returned, what came before
    issued,               \* uri -> the result ids the encode calls on uri have returned
    lastOf,               \* uri -> <<>> or <<the result id the last encode call on uri returned>>
    edited,               \* uri -> the document was parsed anew since the last encode call on it
    capability,           \* the client's SemanticTokensClientCapabilities
    semanticTokensLegend, \* SemanticTokensProvider.semanticTokensLegend: <<>> (undefined) or <<legend>>
    trav,                 \* one run of traverse: tree, start node, cursor, builder, visit log
    rootBeancountFile,    \* BeancountServer.rootBeancountFile
    saves,                \* the save events handled so far
    runs,                 \* the validator runs in flight
    done,                 \* the last completion handled: its run, text, outcome and diagnostics
    sent,                 \* the sendDiagnostics calls of the last completion handled
    consoleError,         \* the connection.console.error calls of the last completion handled
    editor,               \* uri -> the diagnostics the editor holds for it
    startup,              \* the steps of the start of the session taken so far
    handlers,             \* the requests and notifications a handler is registered for
    advertised            \* the requests and notifications the client was told are served

provVars == <<forest, tokenBuilders, clock, response, issued, lastOf, edited>>
legendVars == <<capability, semanticTokensLegend>>
travVars == <<trav>>
serverVars == <<rootBeancountFile, saves, runs, done, sent, consoleError, editor>>
startVars == <<startup, handlers, advertised>>
vars == <<forest, tokenBuilders, clock, response, issued, lastOf, edited,
          capability, semanticTokensLegend, trav, rootBeancountFile, saves,
          runs, done, sent, consoleError, editor, startup, handlers,
          advertised>>

\* ---------------------------------------------------------------- bounds

MaxNodes == 3      \* nodes of a syntax tree
MaxRow == 1        \* rows are 0..MaxRow
MaxCol == 1        \* columns are 0..MaxCol
MaxLen == 2        \* text lengths are 1..MaxLen
MaxClock == 1      \* Date.now() takes the values 0..MaxClock
MaxCaps == 2       \* names in a client token type / modifier array
MaxItems == 2      \* items in the text a validator run writes
MaxLines == 3      \* lines of the text a validator run writes
MaxSaves == 2      \* save events
MaxFlagged == 2    \* flagged-entry lines of a validator report

\* ------------------------------------------------------------ enumerations

\* namespace SemanticTokensProvider, enum TokenTypes
TokenTypes ==
    ("comment" :> 0) @@ ("keyword" :> 1) @@ ("string" :> 2) @@ ("number" :> 3) @@
    ("type" :> 4) @@ ("property" :> 5) @@ ("parameter" :> 6) @@ ("label" :> 7) @@
    ("constant" :> 8) @@ ("_" :> 16)

\* namespace SemanticTokensProvider, enum TokenModifiers
TokenModifiers ==
    ("abstract" :> 0) @@ ("deprecated" :> 1) @@ ("_" :> 2)

\* The reverse mapping of a numeric TypeScript enum, enum[i]: <<name>>, or
\* <<>> where the enum has no member of value i (undefined).
EnumName(enum, i) ==
    IF \E n \in DOMAIN enum : enum[n] = i
    THEN <<CHOOSE n \in DOMAIN enum : enum[n] = i>>
    ELSE <<>>

Range(s) == {s[i] : i \in 1..Len(s)}

SeqsUpTo(S, n) == UNION {[1..k -> S] : k \in 0..n}

\* ------------------------------------------------------------ computeLegend

\* One of the two loops of computeLegend: for (i = 0; i < enum._; i++)
\* { str = enum[i]; if (client.has(str)) out.push(str) }
RECURSIVE LegendLoop(_, _, _, _)

\* The loop putting each shared name in front of the names found before it
\* (unshift for push): the legend comes out in the reverse of the
\* enumeration's order.
LegendLoop_Unshift(enum, client, i, out) ==
    IF i < enum["_"]
    THEN LET str == EnumName(enum, i)
         IN  LegendLoop(enum, client, i + 1,
                        IF str # <<>> /\ str[1] \in client
                        THEN <<str[1]>> \o out ELSE out)
    ELSE out

LegendLoop(enum, client, i, out) ==
    IF i < enum["_"]
    THEN LET str == EnumName(enum, i)
         IN  LegendLoop(enum, client, i + 1,
                        IF str # <<>> /\ str[1] \in client
                        THEN Append(out, str[1]) ELSE out)
    ELSE out

\* computeLegend filtering the client's arrays instead of the server's
\* enumerations: the shared names come out in the client's order.
computeLegend_ClientOrder(cap) ==
    LET names(enum) == {n \in DOMAIN enum : enum[n] < enum["_"]}
    IN  [tokenTypes |-> SelectSeq(cap.tokenTypes,
                                  LAMBDA n : n \in names(TokenTypes)),
         tokenModifiers |-> SelectSeq(cap.tokenModifiers,
                                      LAMBDA n : n \in names(TokenModifiers))]

computeLegend(cap) ==
    LET clientTokenTypes == Range(cap.tokenTypes)
        clientTokenModifiers == Range(cap.tokenModifiers)
    IN  [tokenTypes |-> LegendLoop(TokenTypes, clientTokenTypes, 0, <<>>),
         tokenModifiers |-> LegendLoop(TokenModifiers, clientTokenModifiers, 0, <<>>)]

\* ------------------------------------------------------------ syntax trees

\* A tree (web-tree-sitter Tree) is the sequence of its nodes in document
\* order, the root first; a node carries the index of its parent (0 for the
\* root), its kind (SyntaxNode.type), its start position and the length of
\* its text.  The provider only reads trees; the parser owns them.
Kinds ==
    {"date", "txn", "account", "amount", "incomplete_amount", "currency",
     "key", "string", "tag", "comment", "posting"}

\* The kinds of the nodes of trees of more than one node.
NestKinds == {"posting", "incomplete_amount", "currency"}

Before(a, b) == a.row < b.row \/ (a.row = b.row /\ a.col < b.col)
SameStart(a, b) == a.row = b.row /\ a.col = b.col

RECURSIVE AncestorsOrSelf(_, _)
AncestorsOrSelf(t, i) ==
    IF i = 0 THEN {} ELSE {i} \cup AncestorsOrSelf(t, t[i].parent)

NodesOf(kinds, parents) ==
    [parent : parents, kind : kinds, row : 0..MaxRow, col : 0..MaxCol,
     len : 1..MaxLen]

\* The nodes a parser can put after the nodes of t: a first child starts at
\* or after its parent, any other node after the node before it.
NextNodes(t) ==
    {nd \in NodesOf(NestKinds, AncestorsOrSelf(t, Len(t))) :
        IF nd.parent = Len(t)
        THEN Before(t[Len(t)], nd) \/ SameStart(t[Len(t)], nd)
        ELSE Before(t[Len(t)], nd)}

RECURSIVE TreesOfSize(_)
TreesOfSize(n) ==
    IF n = 1 THEN {<<nd>> : nd \in NodesOf(NestKinds, {0})}
    ELSE UNION {{Append(t, nd) : nd \in NextNodes(t)} : t \in TreesOfSize(n - 1)}

\* The trees of at most n nodes; a tree of one node has any kind.
TreesUpTo(n) ==
    {<<nd>> : nd \in NodesOf(Kinds, {0})}
        \cup UNION {TreesOfSize(k) : k \in 2..n}

\* TreeCursor.gotoFirstChild, gotoNextSibling, gotoParent: the node the
\* cursor moves to, or 0 when the call returns false and the cursor stays.
gotoFirstChild(t, c) ==
    IF c < Len(t) /\ t[c + 1].parent = c THEN c + 1 ELSE 0

gotoNextSibling(t, c) ==
    LET later == {j \in (c + 1)..Len(t) : t[j].parent = t[c].parent}
    IN  IF t[c].parent # 0 /\ later # {}
        THEN CHOOSE j \in later : \A k \in later : j <= k
        ELSE 0

gotoParent(t, c) == t[c].parent

\* ------------------------------------------------- SemanticTokensBuilder

\* vscode-languageserver's SemanticTokensBuilder, as the provider uses it.
\* prevData is <<>> (undefined) or <<data>>.
\* constructor() { this._prevData = undefined; this.initialize() }
\* initialize() { _id = Date.now(); _prevLine = 0; _prevChar = 0; _data = [] }
initialize(b, now) ==
    [b EXCEPT !.id = now, !.prevLine = 0, !.prevChar = 0, !.data = <<>>]

NewBuilder(now) ==
    initialize([id |-> now, prevLine |-> 0, prevChar |-> 0, data |-> <<>>,
                prevData |-> <<>>], now)

\* push(line, char, length, tokenType, tokenModifiers): positions are
\* written relative to the token pushed before.
push(b, line, char, length, tokenType, tokenModifiers) ==
    LET pushLine == IF Len(b.data) > 0 THEN line - b.prevLine ELSE line
        pushChar == IF Len(b.data) > 0 /\ pushLine = 0
                    THEN char - b.prevChar ELSE char
    IN  [b EXCEPT !.data = @ \o <<pushLine, pushChar, length, tokenType,
                                  tokenModifiers>>,
                  !.prevLine = line, !.prevChar = char]

\* previousResult(id) { if (this.id === id) _prevData = _data; initialize() }
previousResult(b, id, now) ==
    initialize(IF b.id = id THEN [b EXCEPT !.prevData = <<b.data>>] ELSE b, now)

\* build() { _prevData = undefined; return { resultId: this.id, data } }
build(b) ==
    [builder |-> [b EXCEPT !.prevData = <<>>],
     result |-> [resultId |-> <<b.id>>, data |-> b.data]]

\* ----------------------------------------------------------------- traverse

\* The body of traverse up to the descent: the chain of comparisons of
\* node.type, each pushing one token with the server's enum value.
pushNode(b, node) ==
    LET tok(type) == push(b, node.row, node.col, node.len, TokenTypes[type],
                          TokenModifiers["abstract"])
    IN  IF node.kind = "date" THEN tok("number")
        ELSE IF node.kind = "txn" THEN tok("property")
        ELSE IF node.kind = "account" THEN tok("type")
        ELSE IF node.kind = "amount" THEN tok("number")
        ELSE IF node.kind = "incomplete_amount" THEN tok("number")
        ELSE IF node.kind = "currency" THEN tok("property")
        ELSE IF node.kind = "key" THEN tok("label")
        ELSE IF node.kind = "string" THEN tok("string")
        ELSE IF node.kind = "tag" THEN tok("constant")
        ELSE IF node.kind = "comment" THEN tok("comment")
        ELSE b

\* traverse(): st is the cursor (the node it is on), the builder and the log
\* of the nodes traverse was called on, in call order.
RECURSIVE traverse(_, _)
RECURSIVE siblingLoop(_, _)

\* traverse descending only from the nodes it pushes no token for (the
\* descent put in the last else of the chain).
traverse_StopAtClassified(t, st) ==
    LET here == [st EXCEPT !.builder = pushNode(@, t[st.cursor]),
                           !.visited = Append(@, st.cursor)]
        child == gotoFirstChild(t, st.cursor)
    IN  IF child # 0 /\ here.builder = st.builder
        THEN LET down == siblingLoop(t, traverse(t, [here EXCEPT !.cursor = child]))
             IN  [down EXCEPT !.cursor = gotoParent(t, down.cursor)]
        ELSE here

\* traverse without treeCursor.gotoParent() after the loop over the
\* children: it returns with the cursor on the last child.
traverse_NoGotoParent(t, st) ==
    LET here == [st EXCEPT !.builder = pushNode(@, t[st.cursor]),
                           !.visited = Append(@, st.cursor)]
        child == gotoFirstChild(t, st.cursor)
    IN  IF child # 0
        THEN siblingLoop(t, traverse(t, [here EXCEPT !.cursor = child]))
        ELSE here

traverse(t, st) ==
    LET here == [st EXCEPT !.builder = pushNode(@, t[st.cursor]),
                           !.visited = Append(@, st.cursor)]
        child == gotoFirstChild(t, st.cursor)
    IN  IF child # 0
        THEN LET down == siblingLoop(t, traverse(t, [here EXCEPT !.cursor = child]))
             IN  [down EXCEPT !.cursor = gotoParent(t, down.cursor)]
        ELSE here

\* while (treeCursor.gotoNextSibling()) { traverse() }
siblingLoop(t, st) ==
    LET sib == gotoNextSibling(t, st.cursor)
    IN  IF sib # 0
        THEN siblingLoop(t, traverse(t, [st EXCEPT !.cursor = sib]))
        ELSE st

\* buildTokens(builder, tree): walks the tree with a fresh cursor.  The
\* function defines traverse and returns without calling it.
buildTokens(builder, tree) == builder

\* ------------------------------------------------- the validator's output

\* A path is the names of its folders, from the file system's root, and the
\* name of the file.
File(dir, base) == [dir |-> dir, base |-> base]

Files == {File(<<"a">>, "main.bean"), File(<<"a", "sub">>, "inc.bean")}

dirname(f) == f.dir
basename(f) == f.base

\* path.relative(from, to) of two absolute folders: one ".." for each
\* folder of `from` below their common ancestor, then the rest of `to`.
relative(from, to) ==
    LET common == {k \in 0..Len(from) :
                      k <= Len(to) /\ SubSeq(from, 1, k) = SubSeq(to, 1, k)}
        c == CHOOSE k \in common : \A j \in common : j <= k
    IN  [i \in 1..(Len(from) - c) |-> ".."] \o SubSeq(to, c + 1, Len(to))

\* The text a validator run writes is split at its newlines: a text is the
\* sequence of its lines, a line the sequence of the items it holds.  An
\* item is an entry naming a file and a line, or text that is no entry.
\* <<>> is the undefined text, << <<>> >> the empty string.
Entries == {[ok |-> TRUE, file |-> f, line |-> n] : f \in Files, n \in {10, 12}}
Junk == [ok |-> FALSE, file |-> File(<<>>, ""), line |-> 0]
Items == Entries \cup {Junk}

\* The texts of k lines that hold at most n items.
RECURSIVE TextsOf(_, _)
TextsOf(k, n) ==
    IF k = 0 THEN {<<>>}
    ELSE UNION {{<<line>> \o rest : rest \in TextsOf(k - 1, n - Len(line))} :
                   line \in SeqsUpTo(Items, n)}

\* The reports of the validator: an error line, a blank line and then at
\* most MaxFlagged lines of one flagged entry each.
Reports ==
    {<< <<Junk>>, <<>> >> \o [k \in 1..Len(es) |-> <<es[k]>>] :
        es \in SeqsUpTo(Entries, MaxFlagged)}

\* The texts a run can write: undefined, at most MaxLines lines that hold
\* at most MaxItems items, or a report.
Texts ==
    {<<>>} \cup UNION {TextsOf(k, MaxItems) : k \in 1..MaxLines} \cup Reports

\* text.split('\n', 3)
split(text, limit) ==
    SubSeq(text, 1, IF Len(text) < limit THEN Len(text) ELSE limit)

\* provideDiagnostics(errors, flagged): the entries of the error section,
\* then those of the flagged section, grouped by file in first-seen order;
\* an item that is no entry is dropped.  A section is <<>> (undefined) or
\* <<line>>.  The group is the sequence of its keys with their lists.
Diagnostic(e, severity) == [line |-> e.line - 1, severity |-> severity]

SectionEntries(section, severity) ==
    IF section = <<>> THEN <<>>
    ELSE LET good == SelectSeq(section[1], LAMBDA it : it.ok)
         IN  [i \in 1..Len(good) |->
                 [file |-> good[i].file,
                  diagnostic |-> Diagnostic(good[i], severity)]]

RECURSIVE GroupBy(_, _)
GroupBy(entries, group) ==
    IF entries = <<>> THEN group
    ELSE LET e == Head(entries)
             at == {i \in 1..Len(group) : group[i].file = e.file}
         IN  GroupBy(Tail(entries),
                     IF at = {}
                     THEN Append(group, [file |-> e.file,
                                         diagnostics |-> <<e.diagnostic>>])
                     ELSE [group EXCEPT ![CHOOSE i \in at : TRUE].diagnostics =
                                            Append(@, e.diagnostic)])

provideDiagnostics(errors, flagged) ==
    GroupBy(SectionEntries(errors, "error") \o SectionEntries(flagged, "warning"),
            <<>>)

\* ------------------------------------------------------ the save handler

\* The uri of a publish: 'file://' + relative_folder + path.sep +
\* path.basename(file).
publishUri(root, file) ==
    [scheme |-> "file://",
     folder |-> relative(dirname(root), dirname(file)),
     base |-> basename(file)]

\* The loop over Object.keys(diagnostics): one sendDiagnostics per key.
publishAll_FirstDiagnostic(root, diagnostics) ==
    [i \in 1..Len(diagnostics) |->
        [uri |-> publishUri(root, diagnostics[i].file),
         diagnostics |-> <<diagnostics[i].diagnostics[1]>>]]

publishAll(root, diagnostics) ==
    [i \in 1..Len(diagnostics) |->
        [uri |-> publishUri(root, diagnostics[i].file),
         diagnostics |-> diagnostics[i].diagnostics]]

\* What the callback given the output of a run leaves: what it passed to
\* provideDiagnostics, the sendDiagnostics calls it made and the error it
\* raised.
Handled(outcome, args, group, sends) ==
    [outcome |-> outcome, args |-> args, group |-> group, sent |-> sends,
     error |-> "none"]

\* The callback reading the flagged section after the blank line, in
\* output[2], instead of output[1].
onOutput_FlaggedAfterBlank(text, root) ==
    IF text = <<>> \/ text = << <<>> >>
    THEN Handled("empty", <<>>, <<>>, <<>>)
    ELSE LET output == split(text, 3)
             errors == <<output[1]>>
             flagged == IF Len(output) >= 3 THEN <<output[3]>> ELSE <<>>
             diagnostics == provideDiagnostics(errors, flagged)
         IN  Handled("output", <<errors, flagged>>, diagnostics,
                     publishAll(root, diagnostics))

\* The callback publishing, after the lists of its group, an empty list for
\* every file the group has no key for.
RECURSIVE ClearsOf(_, _)
ClearsOf(files, root) ==
    IF files = {} THEN <<>>
    ELSE LET f == CHOOSE x \in files : TRUE
         IN  <<[uri |-> publishUri(root, f), diagnostics |-> <<>>]>>
                 \o ClearsOf(files \ {f}, root)

onOutput_ClearsAbsent(text, root) ==
    LET output == split(text, 3)
        errors == <<output[1]>>
        flagged == IF Len(output) >= 2 THEN <<output[2]>> ELSE <<>>
        diagnostics == IF text = <<>> \/ text = << <<>> >> THEN <<>>
                       ELSE provideDiagnostics(errors, flagged)
        keys == {diagnostics[i].file : i \in 1..Len(diagnostics)}
        sends == publishAll(root, diagnostics) \o ClearsOf(Files \ keys, root)
    IN  IF text = <<>> \/ text = << <<>> >>
        THEN Handled("empty", <<>>, <<>>, sends)
        ELSE Handled("output", <<errors, flagged>>, diagnostics, sends)

\* The callback without the test of text: text.split of undefined raises a
\* TypeError, and the empty string is split and handled as output.
onOutput_NoGuard(text, root) ==
    IF text = <<>>
    THEN [Handled("empty", <<>>, <<>>, <<>>) EXCEPT !.error = "TypeError"]
    ELSE LET output == split(text, 3)
             errors == <<output[1]>>
             flagged == IF Len(output) >= 2 THEN <<output[2]>> ELSE <<>>
             diagnostics == provideDiagnostics(errors, flagged)
         IN  Handled("output", <<errors, flagged>>, diagnostics,
                     publishAll(root, diagnostics))

\* The callback given the output of a run: (text?: string) => { if (text)
\* { ... } }.  output[1] is undefined when the text holds no newline.
onOutput(text, root) ==
    IF text = <<>> \/ text = << <<>> >>
    THEN Handled("empty", <<>>, <<>>, <<>>)
    ELSE LET output == split(text, 3)
             errors == <<output[1]>>
             flagged == IF Len(output) >= 2 THEN <<output[2]>> ELSE <<>>
             diagnostics == provideDiagnostics(errors, flagged)
         IN  Handled("output", <<errors, flagged>>, diagnostics,
                     publishAll(root, diagnostics))

\* The editor replaces the list it holds for the uri of each publish.
RECURSIVE Receive(_, _)
Receive(ed, sends) ==
    IF sends = <<>> THEN ed
    ELSE Receive((sends[1].uri :> sends[1].diagnostics) @@ ed, Tail(sends))

NoDone == [run |-> 0, outcome |-> "none", text |-> <<>>, args |-> <<>>,
           group |-> <<>>, error |-> "none", replaced |-> {}]

ServerIdle ==
    /\ rootBeancountFile = File(<<"a">>, "main.bean")
    /\ saves = 0
    /\ runs = {}
    /\ done = NoDone
    /\ sent = <<>>
    /\ consoleError = <<>>
    /\ editor = <<>>

\* The save handler starting no run while one is in flight.
Save_SkipsWhenBusy(doc) ==
    /\ saves < MaxSaves
    /\ saves' = saves + 1
    /\ runs' = IF runs = {}
               THEN {[id |-> saves + 1, doc |-> doc,
                      args |-> <<"bean_check.py", rootBeancountFile>>]}
               ELSE runs
    /\ UNCHANGED <<rootBeancountFile, done, sent, consoleError, editor,
                   provVars, legendVars, travVars,
                   startVars>>

\* The path of the document a save event names.
PathOf(doc) ==
    IF doc = "u1" THEN File(<<"a">>, "main.bean")
    ELSE File(<<"a", "sub">>, "inc.bean")

\* The save handler running bean_check.py on the saved document.
Save_ChecksSavedDocument(doc) ==
    /\ saves < MaxSaves
    /\ saves' = saves + 1
    /\ runs' = runs \cup {[id |-> saves + 1, doc |-> doc,
                           args |-> <<"bean_check.py", PathOf(doc)>>]}
    /\ UNCHANGED <<rootBeancountFile, done, sent, consoleError, editor,
                   provVars, legendVars, travVars,
                   startVars>>

\* onDidSaveTextDocument(params): a run of bean_check.py is started on the
\* root file.
Save(doc) ==
    /\ saves < MaxSaves
    /\ saves' = saves + 1
    /\ runs' = runs \cup {[id |-> saves + 1, doc |-> doc,
                           args |-> <<"bean_check.py", rootBeancountFile>>]}
    /\ UNCHANGED <<rootBeancountFile, done, sent, consoleError, editor,
                   provVars, legendVars, travVars,
                   startVars>>

\* A run ends well and its output reaches the first callback.
Complete(r, text) ==
    /\ r \in runs
    /\ runs' = runs \ {r}
    /\ \E out \in {onOutput(text, rootBeancountFile)} :
           /\ sent' = out.sent
           /\ editor' = Receive(editor, out.sent)
           /\ done' = [run |-> r.id, outcome |-> out.outcome, text |-> text,
                       args |-> out.args, group |-> out.group,
                       error |-> out.error,
                       replaced |-> {i \in 1..Len(out.sent) :
                                        /\ out.sent[i].uri \in DOMAIN editor
                                        /\ editor[out.sent[i].uri] #
                                               out.sent[i].diagnostics}]
    /\ consoleError' = <<>>
    /\ UNCHANGED <<rootBeancountFile, saves, provVars, legendVars, travVars,
                   startVars>>

\* The run started without the last callback: a failure is logged nowhere.
Fail_Silent(r, str) ==
    /\ r \in runs
    /\ runs' = runs \ {r}
    /\ consoleError' = <<>>
    /\ sent' = <<>>
    /\ done' = [run |-> r.id, outcome |-> "failed", text |-> <<>>,
                args |-> <<>>, group |-> <<>>, error |-> "none",
                replaced |-> {}]
    /\ UNCHANGED <<rootBeancountFile, saves, editor, provVars, legendVars,
                   travVars,
                   startVars>>

\* A run fails and the reason reaches the last callback.
Fail(r, str) ==
    /\ r \in runs
    /\ runs' = runs \ {r}
    /\ consoleError' = <<str>>
    /\ sent' = <<>>
    /\ done' = [run |-> r.id, outcome |-> "failed", text |-> <<>>,
                args |-> <<>>, group |-> <<>>, error |-> "none",
                replaced |-> {}]
    /\ UNCHANGED <<rootBeancountFile, saves, editor, provVars, legendVars,
                   travVars,
                   startVars>>

\* ------------------------------------------------------------- the handlers

Uris == {"u1", "u2"}

\* The trees the documents of the provider's specification hold.
DocTrees ==
    {<<[parent |-> 0, kind |-> "posting", row |-> 0, col |-> 0, len |-> 1]>>,
     <<[parent |-> 0, kind |-> "incomplete_amount", row |-> 0, col |-> 0,
        len |-> 1],
       [parent |-> 1, kind |-> "currency", row |-> 0, col |-> 0, len |-> 1]>>}

\* getTokenBuilder without this.tokenBuilders.set(uri, result): the new
\* builder is returned and not kept.
getTokenBuilder_NoSet(tb, uri, now) ==
    IF uri \in DOMAIN tb
    THEN [result |-> tb[uri], tokenBuilders |-> tb]
    ELSE [result |-> NewBuilder(now), tokenBuilders |-> tb]

\* getTokenBuilder making a new map for the new builder (= new Map([[uri,
\* result]]) for set): the builders of the other documents are dropped.
getTokenBuilder_OneEntry(tb, uri, now) ==
    IF uri \in DOMAIN tb
    THEN [result |-> tb[uri], tokenBuilders |-> tb]
    ELSE [result |-> NewBuilder(now), tokenBuilders |-> (uri :> NewBuilder(now))]

\* getTokenBuilder(uri): the cached builder, or a new one put in the map.
getTokenBuilder(tb, uri, now) ==
    IF uri \in DOMAIN tb
    THEN [result |-> tb[uri], tokenBuilders |-> tb]
    ELSE [result |-> NewBuilder(now),
          tokenBuilders |-> (uri :> NewBuilder(now)) @@ tb]

\* The builder is an object the map refers to: what a handler does to the
\* builder it got shows in the map where the map holds that builder.
Mutated(tb, uri, b) ==
    IF uri \in DOMAIN tb THEN [tb EXCEPT ![uri] = b] ELSE tb

\* What a handler leaves: the value it returns (kind "tokens" is a
\* SemanticTokens object, "edits" a SemanticTokensDelta), the error it
\* raises, and the builder map.
Returned(kind, resultId, data, tb) ==
    [kind |-> kind, resultId |-> resultId, data |-> data, error |-> "none",
     tokenBuilders |-> tb]

\* handleSemantic(params)
handleSemantic(uri, fst, tb, now) ==
    IF uri \notin DOMAIN fst
    THEN Returned("tokens", <<>>, <<>>, tb)
    ELSE LET got == getTokenBuilder(tb, uri, now)
             built == build(buildTokens(got.result, fst[uri]))
         IN  Returned("tokens", built.result.resultId, built.result.data,
                      Mutated(got.tokenBuilders, uri, built.builder))

\* handleSemanticDelta without the test of treeContainer: reading
\* treeContainer.tree of undefined raises a TypeError.
handleSemanticDelta_NoCheck(uri, previousResultId, fst, tb, now) ==
    LET got == getTokenBuilder(tb, uri, now)
        prev == previousResult(got.result, previousResultId, now)
        built == build(prev)
    IN  IF uri \notin DOMAIN fst
        THEN [Returned("tokens", <<>>, <<>>,
                       Mutated(got.tokenBuilders, uri, prev))
                 EXCEPT !.error = "TypeError"]
        ELSE Returned("tokens", built.result.resultId, built.result.data,
                      Mutated(got.tokenBuilders, uri, built.builder))

\* handleSemanticDelta(params)
handleSemanticDelta(uri, previousResultId, fst, tb, now) ==
    IF uri \notin DOMAIN fst
    THEN Returned("tokens", <<>>, <<>>, tb)
    ELSE LET got == getTokenBuilder(tb, uri, now)
             prev == previousResult(got.result, previousResultId, now)
             built == build(buildTokens(prev, fst[uri]))
         IN  Returned("tokens", built.result.resultId, built.result.data,
                      Mutated(got.tokenBuilders, uri, built.builder))

\* The record of a handler call.
Call(op, uri, previousResultId, ret) ==
    [op |-> op, uri |-> uri, previousResultId |-> previousResultId,
     tree |-> IF uri \in DOMAIN forest THEN forest[uri] ELSE <<>>,
     kind |-> ret.kind, resultId |-> ret.resultId, data |-> ret.data,
     error |-> ret.error,
     idsBefore |-> issued[uri], before |-> lastOf[uri],
     edited |-> edited[uri]]

Answer(op, uri, previousResultId, ret) ==
    /\ response' = Call(op, uri, previousResultId, ret)
    /\ tokenBuilders' = ret.tokenBuilders
    /\ issued' = [issued EXCEPT ![uri] = @ \cup Range(ret.resultId)]
    /\ lastOf' = IF ret.resultId # <<>>
                 THEN [lastOf EXCEPT ![uri] = ret.resultId] ELSE lastOf
    /\ edited' = IF ret.resultId # <<>>
                 THEN [edited EXCEPT ![uri] = FALSE] ELSE edited
    /\ UNCHANGED <<forest, clock, capability, semanticTokensLegend, trav,
                   serverVars,
                   startVars>>

\* A textDocument/semanticTokens/full request arrives.
SemanticFull(uri) ==
    Answer("full", uri, <<>>, handleSemantic(uri, forest, tokenBuilders, clock))

\* A textDocument/semanticTokens/full/delta request arrives; -1 stands for
\* a previousResultId that is no id of any builder.
SemanticDelta(uri, id) ==
    Answer("delta", uri, <<id>>,
           handleSemanticDelta(uri, id, forest, tokenBuilders, clock))

\* The document is parsed (opened or edited): the forest holds its new tree.
Parse(uri, t) ==
    /\ forest' = (uri :> t) @@ forest
    /\ forest' # forest
    /\ edited' = [edited EXCEPT ![uri] = TRUE]
    /\ UNCHANGED <<tokenBuilders, clock, response, issued, lastOf, capability,
                   semanticTokensLegend, trav, serverVars,
                   startVars>>

\* The forest drops the tree of a document.
Remove(uri) ==
    /\ uri \in DOMAIN forest
    /\ forest' = [u \in DOMAIN forest \ {uri} |-> forest[u]]
    /\ UNCHANGED <<tokenBuilders, clock, response, issued, lastOf, edited,
                   capability, semanticTokensLegend, trav, serverVars,
                   startVars>>

\* Time passes between two readings of Date.now().
Tick ==
    /\ clock < MaxClock
    /\ clock' = clock + 1
    /\ UNCHANGED <<forest, tokenBuilders, response, issued, lastOf, edited,
                   capability, semanticTokensLegend, trav, serverVars,
                   startVars>>

NoResponse ==
    [op |-> "none", uri |-> "u1", previousResultId |-> <<>>, tree |-> <<>>,
     kind |-> "tokens", resultId |-> <<>>, data |-> <<>>, error |-> "none",
     idsBefore |-> {}, before |-> <<>>, edited |-> FALSE]

NoTrav == [tree |-> <<>>, start |-> 0, cursor |-> 0, builder |-> NewBuilder(0),
           visited |-> <<>>, done |-> FALSE]

NoCapability == [tokenTypes |-> <<>>, tokenModifiers |-> <<>>]

\* The handlers the constructor of SemanticTokensProvider registers:
\* connection.onInitialized, semanticTokens.on and semanticTokens.onDelta
\* (the registration of onRange is commented out).
ProviderHandlers ==
    {"initialized", "textDocument/semanticTokens/full",
     "textDocument/semanticTokens/full/delta"}

\* What the registration options of handleInitialized tell the client is
\* served: range: true, full: { delta: true }.
RegistrationOptions ==
    {"textDocument/semanticTokens/range", "textDocument/semanticTokens/full",
     "textDocument/semanticTokens/full/delta"}

\* The handlers BeancountServer.register registers: those of
\* documents.listen, onDidSaveTextDocument and onDocumentFormatting.
ServerHandlers ==
    {"textDocument/didOpen", "textDocument/didChange", "textDocument/didClose",
     "textDocument/didSave", "textDocument/formatting"}

\* What BeancountServer.capabilities tells the client is served: the
\* members of textDocumentSync, documentFormattingProvider and
\* completionProvider; the providers set to false are not.
ServerCapabilities ==
    {"textDocument/didOpen", "textDocument/didChange", "textDocument/didClose",
     "textDocument/didSave", "textDocument/formatting",
     "textDocument/completion"}

StartupSteps == {"constructor", "handleInitialized", "register", "capabilities"}

\* The session before its start, and after it.
NotStarted ==
    /\ startup = {}
    /\ handlers = {}
    /\ advertised = {}

Started ==
    /\ startup = StartupSteps
    /\ handlers = ProviderHandlers \cup ServerHandlers
    /\ advertised = RegistrationOptions \cup ServerCapabilities

\* The parts of the state a specification leaves alone.
ProviderIdle ==
    /\ forest = <<>>
    /\ tokenBuilders = <<>>
    /\ clock = 0
    /\ response = NoResponse
    /\ issued = [u \in Uris |-> {}]
    /\ lastOf = [u \in Uris |-> <<>>]
    /\ edited = [u \in Uris |-> FALSE]

Init ==
    /\ forest \in UNION {[D -> DocTrees] : D \in SUBSET Uris}
    /\ tokenBuilders = <<>>
    /\ clock = 0
    /\ response = NoResponse
    /\ issued = [u \in Uris |-> {}]
    /\ lastOf = [u \in Uris |-> <<>>]
    /\ edited = [u \in Uris |-> FALSE]
    /\ capability = NoCapability
    /\ semanticTokensLegend = <<computeLegend(NoCapability)>>
    /\ trav = NoTrav
    /\ ServerIdle
    /\ Started

Next ==
    \/ \E u \in Uris : SemanticFull(u)
    \/ \E u \in Uris, id \in -1..MaxClock : SemanticDelta(u, id)
    \/ \E u \in Uris, t \in DocTrees : Parse(u, t)
    \/ \E u \in Uris : Remove(u)
    \/ Tick

Spec == Init /\ [][Next]_vars

\* ------------------------------------------- the server's specification

InitServer ==
    /\ ProviderIdle
    /\ capability = NoCapability
    /\ semanticTokensLegend = <<>>
    /\ trav = NoTrav
    /\ rootBeancountFile \in Files
    /\ saves = 0
    /\ runs = {}
    /\ done = NoDone
    /\ sent = <<>>
    /\ consoleError = <<>>
    /\ editor = <<>>
    /\ Started

NextServer ==
    \/ \E doc \in Uris : Save(doc)
    \/ \E r \in runs, text \in Texts : Complete(r, text)
    \/ \E r \in runs, str \in {"spawn python ENOENT", "exit code 1"} : Fail(r, str)

SpecServer == InitServer /\ [][NextServer]_vars

\* ------------------------------------------------- the claims: encoding

\* The classification rule table: node kind -> token category.
RuleTable ==
    ("date" :> "number") @@ ("txn" :> "property") @@ ("account" :> "type") @@
    ("amount" :> "number") @@ ("incomplete_amount" :> "number") @@
    ("currency" :> "property") @@ ("key" :> "label") @@ ("string" :> "string") @@
    ("tag" :> "constant") @@ ("comment" :> "comment")

\* The tokens of a stream, with absolute positions: a stream holds five
\* integers per token, the position relative to the token before.
RECURSIVE DecodeFrom(_, _, _)
DecodeFrom(data, line, char) ==
    IF Len(data) < 5 THEN <<>>
    ELSE LET l == line + data[1]
             c == IF data[1] = 0 THEN char + data[2] ELSE data[2]
         IN  <<[row |-> l, col |-> c, len |-> data[3], type |-> data[4],
                mods |-> data[5]]>>
                 \o DecodeFrom(SubSeq(data, 6, Len(data)), l, c)

Decode(data) == DecodeFrom(data, 0, 0)

\* The token the rule table gives node nd.
TokenOf(nd) ==
    [row |-> nd.row, col |-> nd.col, len |-> nd.len,
     type |-> TokenTypes[RuleTable[nd.kind]], mods |-> 0]

\* The tokens of a tree: those of its classified nodes, in document order.
RECURSIVE TreeTokensFrom(_, _)
TreeTokensFrom(t, i) ==
    IF i > Len(t) THEN <<>>
    ELSE (IF t[i].kind \in DOMAIN RuleTable THEN <<TokenOf(t[i])>> ELSE <<>>)
             \o TreeTokensFrom(t, i + 1)

TreeTokens(t) == TreeTokensFrom(t, 1)

\* C1: a full encode of a document that has a tree returns a stream holding,
\* for every node whose kind is in the rule table, a token at the node's
\* start, of the node's text length and of the category mapped to its kind.
C1_FullEncodeCoversTree ==
    (response.op = "full" /\ response.tree # <<>>) =>
        \A i \in 1..Len(response.tree) :
            response.tree[i].kind \in DOMAIN RuleTable =>
                \E k \in 1..Len(Decode(response.data)) :
                    LET tok == Decode(response.data)[k]
                        want == TokenOf(response.tree[i])
                    IN  /\ tok.row = want.row /\ tok.col = want.col
                        /\ tok.len = want.len /\ tok.type = want.type

\* C5: a delta request that carries the result id of the encode call before
\* it on the same document, with no edit in between, is answered by an
\* empty list of edits.
C5_DeltaOfUnchangedIsEmpty ==
    (/\ response.op = "delta" /\ response.tree # <<>>
     /\ response.before # <<>>
     /\ response.previousResultId = response.before
     /\ ~response.edited)
        => response.kind = "edits" /\ response.data = <<>>

\* C6: a full encode that follows earlier encode calls on the document
\* returns exactly the tokens of the document's current tree.
C6_FullEncodeIsCurrentTree ==
    (response.op = "full" /\ response.tree # <<>> /\ response.before # <<>>)
        => /\ response.kind = "tokens"
           /\ Decode(response.data) = TreeTokens(response.tree)

\* C7: the result id a full encode returns differs from the result id of
\* every earlier encode call on the document.
C7_FullEncodeIdIsFresh ==
    (response.op = "full" /\ response.resultId # <<>>)
        => response.resultId[1] \notin response.idsBefore

\* C8: a delta request whose previousResultId is not the id of the cached
\* result of the document (or that finds no cache entry) is answered by the
\* full token stream of the current tree, without an error.
C8_DeltaOfUnknownIdIsFull ==
    (/\ response.op = "delta" /\ response.tree # <<>>
     /\ response.previousResultId # response.before)
        => /\ response.error = "none"
           /\ response.kind = "tokens"
           /\ Decode(response.data) = TreeTokens(response.tree)

\* C17: after an encode call (full or delta) on a document that has a tree,
\* the document has a cache entry and the stream it holds is the stream the
\* call returned.
C17_CacheHoldsLastStream ==
    (response.op \in {"full", "delta"} /\ response.tree # <<>>) =>
        /\ response.uri \in DOMAIN tokenBuilders
        /\ tokenBuilders[response.uri].data = response.data

\* C17's case: a delta call that follows earlier encode calls on the
\* document returned a stream, and the cache entry holds it.
C17_Witness ==
    /\ response.op = "delta" /\ response.tree # <<>>
    /\ response.before # <<>>
    /\ response.previousResultId = response.before
    /\ response.uri \in DOMAIN tokenBuilders
    /\ tokenBuilders[response.uri].data = response.data
    /\ tokenBuilders[response.uri].id = response.resultId[1]

\* The cache entry of document u: <<>> (none) or <<builder>>.
Entry(tb, u) == IF u \in DOMAIN tb THEN <<tb[u]>> ELSE <<>>

\* C21: a step that creates or changes the cache entry of a document is an
\* encode call (full or delta) for that document, which has a tree; it
\* leaves the entries of all other documents as they were, and parsing,
\* dropping a tree and the passing of time change no entry.
C21_OnlyEncodeOfDocumentChangesEntry ==
    [][\A u \in Uris :
          Entry(tokenBuilders', u) # Entry(tokenBuilders, u) =>
              /\ forest' = forest /\ clock' = clock
              /\ response'.op \in {"full", "delta"}
              /\ response'.uri = u
              /\ response'.tree # <<>>
              /\ \A v \in Uris \ {u} :
                    Entry(tokenBuilders', v) = Entry(tokenBuilders, v)]_vars

\* C21's case: a delta call changed the entry of its document (the entry
\* has a new id) while another document has an entry with the older id.
C21_Witness ==
    /\ response.op = "delta" /\ response.tree # <<>>
    /\ response.before # <<>> /\ response.resultId # response.before
    /\ \E v \in DOMAIN tokenBuilders \ {response.uri} :
          <<tokenBuilders[v].id>> = response.before

\* C9: when the forest has no tree for the document, the full handler and
\* the delta handler return the empty stream { data: [] } and raise nothing.
C9_AbsentTreeIsEmptyStream ==
    (response.op \in {"full", "delta"} /\ response.tree = <<>>)
        => /\ response.error = "none"
           /\ response.kind = "tokens"
           /\ response.data = <<>>
           /\ response.resultId = <<>>

\* C9's case: a delta request for a document the forest has no tree for
\* was answered, and no builder was made for the document.
C9_Witness ==
    /\ response.op = "delta" /\ response.tree = <<>>
    /\ response.uri \notin DOMAIN forest
    /\ response.uri \notin DOMAIN tokenBuilders
    /\ response.error = "none" /\ response.data = <<>>

\* ------------------------------------------------ traverse, run on a tree

\* The capabilities a client can declare: arrays of at most MaxCaps names.
ClientTypeNames == {"comment", "string", "number", "property", "function", "_"}
ClientModifierNames == {"abstract", "deprecated", "readonly"}

Capabilities ==
    [tokenTypes : SeqsUpTo(ClientTypeNames, MaxCaps),
     tokenModifiers : SeqsUpTo(ClientModifierNames, MaxCaps)]

\* The capabilities of the clients of the traversal's specification.
TraverseCapabilities ==
    {c \in Capabilities : c.tokenModifiers = <<>> /\ Len(c.tokenTypes) <= 1}

InitTraverse ==
    /\ ProviderIdle
    /\ ServerIdle
    /\ capability \in TraverseCapabilities
    /\ semanticTokensLegend = <<computeLegend(capability)>>
    /\ Started
    /\ \E t \in TreesUpTo(MaxNodes) :
          \E c \in 1..Len(t) :
              trav = [tree |-> t, start |-> c, cursor |-> c,
                      builder |-> NewBuilder(0), visited |-> <<>>,
                      done |-> FALSE]

\* traverse() is called once, the cursor on a node of the tree (the root,
\* for the cursor of tree.walk(); another node, for a call traverse makes)
\* and the builder new.
TraverseCall ==
    /\ ~trav.done
    /\ LET st == traverse(trav.tree, [cursor |-> trav.cursor,
                                      builder |-> trav.builder,
                                      visited |-> trav.visited])
       IN  trav' = [trav EXCEPT !.cursor = st.cursor, !.builder = st.builder,
                                !.visited = st.visited, !.done = TRUE]
    /\ UNCHANGED <<provVars, legendVars, serverVars,
                   startVars>>

NextTraverse == TraverseCall

SpecTraverse == InitTraverse /\ [][NextTraverse]_vars

\* The tokens one run of traverse pushed, with the positions they were
\* pushed at.
Pushed == Decode(trav.builder.data)

\* The last node of the subtree of node c, and the subtree as the sequence
\* of its nodes in document order.
SubtreeEnd(t, c) ==
    CHOOSE e \in c..Len(t) :
        /\ \A i \in c..e : c \in AncestorsOrSelf(t, i)
        /\ e < Len(t) => c \notin AncestorsOrSelf(t, e + 1)

Subtree(t, c) == SubSeq(t, c, SubtreeEnd(t, c))

\* C2: the tokens one pass pushes are in strictly increasing (line, column)
\* order: no token starts at or before the start of the token before it.
C2_PushedStrictlyIncreasing ==
    trav.done =>
        \A k \in 1..(Len(Pushed) - 1) : Before(Pushed[k], Pushed[k + 1])

\* The index of a name in a legend list, counted from 0.
IndexIn(list, name) == (CHOOSE i \in 1..Len(list) : list[i] = name) - 1

\* The tokens of a tree under a legend: those of the classified nodes whose
\* category the legend holds, the category given as its index in the legend.
RECURSIVE LegendTokensFrom(_, _, _)
LegendTokensFrom(t, i, types) ==
    IF i > Len(t) THEN <<>>
    ELSE (IF t[i].kind \in DOMAIN RuleTable /\ RuleTable[t[i].kind] \in Range(types)
          THEN <<[TokenOf(t[i]) EXCEPT !.type = IndexIn(types, RuleTable[t[i].kind])]>>
          ELSE <<>>)
             \o LegendTokensFrom(t, i + 1, types)

\* C3: every token pushed carries the index, in the negotiated legend, of
\* the category mapped to its node's kind, and a node whose category the
\* legend does not hold pushes no token.
C3_PushedIndexIsLegendIndex ==
    trav.done =>
        /\ \A k \in 1..Len(Pushed) :
              Pushed[k].type < Len(semanticTokensLegend[1].tokenTypes)
        /\ Pushed = LegendTokensFrom(Subtree(trav.tree, trav.start), 1,
                                     semanticTokensLegend[1].tokenTypes)

\* C18: a node whose kind is not in the rule table pushes no token, and
\* every node of the subtree whose kind is in the table pushes its own,
\* whatever the kinds of the nodes above it: the tokens pushed are those of
\* the classified nodes of the subtree, one each, in document order.
C18_ClassifiedNodesAllPushed ==
    trav.done => Pushed = TreeTokens(Subtree(trav.tree, trav.start))

\* C18's case: a classified node under a classified node under a node that
\* is not classified; the two classified nodes pushed their tokens.
C18_Witness ==
    /\ trav.done /\ trav.start = 1 /\ Len(trav.tree) = 3
    /\ trav.tree[1].kind = "posting"
    /\ trav.tree[2].kind = "incomplete_amount" /\ trav.tree[2].parent = 1
    /\ trav.tree[3].kind = "currency" /\ trav.tree[3].parent = 2
    /\ Len(Pushed) = 2
    /\ Pushed[2].type = TokenTypes["property"]

\* C19: one call of traverse ends, having been on every node of the
\* subtree of the node it started on exactly once, in document order (a
\* node before its children, the children left to right), with the cursor
\* back on the node it started on.
C19_VisitsSubtreeOnceInPreorder ==
    trav.done =>
        /\ trav.visited =
               [k \in 1..Len(Subtree(trav.tree, trav.start)) |->
                   trav.start + k - 1]
        /\ trav.cursor = trav.start

\* C19's case: a call on the root of a tree whose root has two children: it
\* was on the root, then on the first child, then on the second, and
\* returned on the root.
C19_Witness ==
    /\ trav.done /\ Len(trav.tree) = 3
    /\ trav.tree[2].parent = 1 /\ trav.tree[3].parent = 1
    /\ trav.start = 1
    /\ trav.visited = <<1, 2, 3>> /\ trav.cursor = 1

\* ------------------------------------------------- the legend negotiation

InitLegend ==
    /\ ProviderIdle
    /\ ServerIdle
    /\ capability \in Capabilities
    /\ semanticTokensLegend = <<>>
    /\ trav = NoTrav
    /\ NotStarted

\* The constructor, given capabilities: the legend is computed once and the
\* handlers are registered.
Construct ==
    /\ semanticTokensLegend = <<>>
    /\ semanticTokensLegend' = <<computeLegend(capability)>>
    /\ startup' = startup \cup {"constructor"}
    /\ handlers' = handlers \cup ProviderHandlers
    /\ UNCHANGED <<provVars, capability, trav, serverVars, advertised>>

NextLegend == Construct

SpecLegend == InitLegend /\ [][NextLegend]_vars

\* ------------------------------------------------ the start of the session

\* handleInitialized(): the client's initialized notification reaches the
\* handler the constructor registered; the registration options are sent.
handleInitialized ==
    /\ "initialized" \in handlers
    /\ "handleInitialized" \notin startup
    /\ startup' = startup \cup {"handleInitialized"}
    /\ advertised' = advertised \cup RegistrationOptions
    /\ UNCHANGED <<provVars, legendVars, travVars, serverVars, handlers>>

\* BeancountServer.register(connection)
register ==
    /\ "register" \notin startup
    /\ startup' = startup \cup {"register"}
    /\ handlers' = handlers \cup ServerHandlers
    /\ UNCHANGED <<provVars, legendVars, travVars, serverVars, advertised>>

\* BeancountServer.capabilities(): its result goes to the client.
capabilities ==
    /\ "capabilities" \notin startup
    /\ startup' = startup \cup {"capabilities"}
    /\ advertised' = advertised \cup ServerCapabilities
    /\ UNCHANGED <<provVars, legendVars, travVars, serverVars, handlers>>

NextStartup ==
    \/ Construct
    \/ handleInitialized
    \/ register
    \/ capabilities

SpecStartup == InitLegend /\ [][NextStartup]_vars

\* C23: once the session has started, every request or notification the
\* client was told is served (semantic tokens full, delta and range in the
\* registration options; formatting and completion in the capabilities) has
\* a handler registered.
C23_AdvertisedHaveHandlers ==
    startup = StartupSteps => advertised \subseteq handlers

\* The names of an enumeration: its members below the sentinel _.
ServerNames(enum) == {n \in DOMAIN enum : enum[n] < enum["_"]}

\* list holds exactly the names of enum that the client declared, in the
\* order of enum and each once.
Negotiated(list, enum, declared) ==
    /\ Range(list) = ServerNames(enum) \cap Range(declared)
    /\ \A i, j \in 1..Len(list) : i < j => enum[list[i]] < enum[list[j]]

\* C4: the legend holds, for token types and for modifiers, exactly the
\* names in both the server's enumeration and the client's declaration, in
\* the server's order and without duplicates (none, if they share none).
C4_LegendIsOrderedIntersection ==
    semanticTokensLegend # <<>> =>
        /\ Negotiated(semanticTokensLegend[1].tokenTypes, TokenTypes,
                      capability.tokenTypes)
        /\ Negotiated(semanticTokensLegend[1].tokenModifiers, TokenModifiers,
                      capability.tokenModifiers)

\* C4's case: the client declares two server names in the reverse of the
\* server's order, and the legend has them in the server's.
C4_Witness ==
    /\ capability.tokenTypes = <<"string", "comment">>
    /\ capability.tokenModifiers = <<"readonly", "abstract">>
    /\ semanticTokensLegend = <<[tokenTypes |-> <<"comment", "string">>,
                                 tokenModifiers |-> <<"abstract">>]>>

\* The place of the first occurrence of name in the client's array.
FirstIndex(declared, name) ==
    CHOOSE i \in 1..Len(declared) :
        declared[i] = name /\ \A j \in 1..(i - 1) : declared[j] # name

\* list holds the shared names in the order the client declared them in.
ClientOrdered(list, enum, declared) ==
    /\ Range(list) = ServerNames(enum) \cap Range(declared)
    /\ \A i, j \in 1..Len(list) :
          i < j => FirstIndex(declared, list[i]) < FirstIndex(declared, list[j])

\* C16: the legend keeps the names shared by client and server in the order
\* in which the client declared them.
C16_LegendKeepsClientOrder ==
    semanticTokensLegend # <<>> =>
        /\ ClientOrdered(semanticTokensLegend[1].tokenTypes, TokenTypes,
                         capability.tokenTypes)
        /\ ClientOrdered(semanticTokensLegend[1].tokenModifiers, TokenModifiers,
                         capability.tokenModifiers)

\* The names of list that stand before its k-th, and the members of the
\* enumeration below the k-th.
ListedBefore(list, k) == {list[i] : i \in 1..(k - 1)}
EnumBelow(enum, name) == {n \in ServerNames(enum) : enum[n] < enum[name]}

\* C16, amended: the legend keeps the shared names in the order of the
\* server's enumeration, whatever order the client declared them in: before
\* each name stand exactly the shared names the enumeration has below it.
C16_LegendKeepsServerOrder ==
    semanticTokensLegend # <<>> =>
        /\ \A k \in 1..Len(semanticTokensLegend[1].tokenTypes) :
              ListedBefore(semanticTokensLegend[1].tokenTypes, k) =
                  EnumBelow(TokenTypes, semanticTokensLegend[1].tokenTypes[k])
                      \cap Range(capability.tokenTypes)
        /\ \A k \in 1..Len(semanticTokensLegend[1].tokenModifiers) :
              ListedBefore(semanticTokensLegend[1].tokenModifiers, k) =
                  EnumBelow(TokenModifiers,
                            semanticTokensLegend[1].tokenModifiers[k])
                      \cap Range(capability.tokenModifiers)

\* C16's case: the client declares number before comment, and the legend
\* has comment before number.
C16_Witness ==
    /\ capability.tokenTypes = <<"number", "comment">>
    /\ semanticTokensLegend # <<>>
    /\ semanticTokensLegend[1].tokenTypes = <<"comment", "number">>

\* --------------------------------------------- the claims: diagnostics

\* C10: a run that completes with output makes exactly one sendDiagnostics
\* call per file key of its diagnostic group, each carrying that file's
\* whole list of this run, and the editor then holds, for each of these
\* files, this run's list and nothing else.
C10_OnePublishPerFileOfRun ==
    done.outcome = "output" =>
        /\ Len(sent) = Len(done.group)
        /\ \A i \in 1..Len(sent) :
              /\ sent[i].uri = publishUri(rootBeancountFile, done.group[i].file)
              /\ sent[i].diagnostics = done.group[i].diagnostics
              /\ sent[i].uri \in DOMAIN editor
              /\ editor[sent[i].uri] = done.group[i].diagnostics
        /\ \A i, j \in 1..Len(sent) : i # j => sent[i].uri # sent[j].uri

\* C10's case: the second run handled publishes two diagnostics for a file
\* whose list from the first run was another one.
C10_Witness ==
    /\ done.outcome = "output"
    /\ done.replaced # {}
    /\ \E i \in done.replaced :
          /\ Len(done.group[i].diagnostics) = 2
          /\ editor[sent[i].uri] = done.group[i].diagnostics

\* The text is an error line, a blank line and then at least two lines that
\* each hold one flagged entry of the same file.
ErrorBlankFlagged(text) ==
    /\ Len(text) >= 4
    /\ text[1] = <<Junk>>
    /\ text[2] = <<>>
    /\ \A k \in 3..Len(text) :
          /\ Len(text[k]) = 1 /\ text[k][1].ok
          /\ text[k][1].file = text[3][1].file

\* C11: output made of an error line, a blank line and then several
\* flagged-entry lines of one file yields one diagnostic per flagged line,
\* all in one publish for that file, in input order.
C11_FlaggedLinesPublishedInOrder ==
    (done.outcome = "output" /\ ErrorBlankFlagged(done.text)) =>
        /\ Len(sent) = 1
        /\ sent[1].uri = publishUri(rootBeancountFile, done.text[3][1].file)
        /\ sent[1].diagnostics =
               [k \in 1..(Len(done.text) - 2) |->
                   Diagnostic(done.text[k + 2][1], "warning")]

\* C12: handling the failure of a run writes the failure text to the error
\* console, makes no sendDiagnostics call and leaves the lists the editor
\* holds as they were.
C12_FailurePublishesNothing ==
    [][(done' # done /\ done'.outcome = "failed") =>
          /\ Len(consoleError') = 1
          /\ sent' = <<>>
          /\ editor' = editor]_vars

\* C12's case: a run failed after an earlier run had published diagnostics,
\* which the editor still holds.
C12_Witness ==
    /\ done.outcome = "failed"
    /\ consoleError # <<>> /\ sent = <<>>
    /\ \E u \in DOMAIN editor : editor[u] # <<>>

\* C13: every save starts exactly one run, whatever runs are in flight, and
\* leaves the runs in flight as they are.
C13_EverySaveStartsOneRun ==
    [][saves' # saves =>
          /\ saves' = saves + 1
          /\ runs \subseteq runs'
          /\ Cardinality(runs' \ runs) = 1
          /\ \A r \in runs' \ runs : r.id = saves']_vars

\* C13's case: the run of the first save is handled after the run of the
\* second, and the editor is left holding the first save's diagnostics for
\* a file the second save's run had published others for.
C13_Witness ==
    /\ saves >= 2 /\ runs = {}
    /\ done.run = 1 /\ done.outcome = "output"
    /\ \E i \in done.replaced :
          editor[sent[i].uri] = done.group[i].diagnostics

\* C14: handling a completion whose group has no key for a file the editor
\* holds diagnostics for (an empty output included) publishes nothing for
\* that file, and the editor keeps the list it held.
C14_AbsentFileKeepsDiagnostics ==
    [][done' # done =>
          \A u \in DOMAIN editor :
              (\A i \in 1..Len(done'.group) :
                   publishUri(rootBeancountFile, done'.group[i].file) # u)
              => /\ u \in DOMAIN editor'
                 /\ editor'[u] = editor[u]
                 /\ \A i \in 1..Len(sent') : sent'[i].uri # u]_vars

\* C14's case: the last run published for one file and not for another,
\* whose diagnostics of an earlier run the editor still holds.
C14_Witness ==
    /\ done.outcome = "output" /\ sent # <<>>
    /\ \E u \in DOMAIN editor :
          /\ editor[u] # <<>>
          /\ \A i \in 1..Len(sent) : sent[i].uri # u

\* The entries among the items of the sections given to provideDiagnostics.
EntriesIn(args) ==
    LET n(section) == IF section = <<>> THEN 0
                      ELSE Len(SelectSeq(section[1], LAMBDA it : it.ok))
    IN  n(args[1]) + n(args[2])

RECURSIVE DiagnosticsIn(_)
DiagnosticsIn(group) ==
    IF group = <<>> THEN 0
    ELSE Len(Head(group).diagnostics) + DiagnosticsIn(Tail(group))

\* C15: handling the output of a run raises nothing, whatever the text (no
\* text, one segment, lines that are no entries); the items that are no
\* entries give no diagnostic and the entries around them each give one.
C15_CompletionNeverFails ==
    done.run # 0 =>
        /\ done.error = "none"
        /\ done.outcome = "output" =>
               DiagnosticsIn(done.group) = EntriesIn(done.args)

\* C15's case: a text of one segment, holding an entry and an item that is
\* none, was handled: the flagged section was undefined, the entry was
\* published and nothing was raised.
C15_Witness ==
    /\ done.outcome = "output" /\ done.error = "none"
    /\ Len(done.text) = 1
    /\ Junk \in Range(done.text[1])
    /\ done.args[2] = <<>>
    /\ Len(sent) = 1

\* C20: the error section given to provideDiagnostics is the first segment
\* of the text and the flagged section the second (undefined when the text
\* has one segment); what follows the second newline gives no diagnostic.
C20_SectionsAreFirstTwoSegments ==
    done.outcome = "output" =>
        /\ done.args[1] = <<done.text[1]>>
        /\ done.args[2] = IF Len(done.text) >= 2 THEN <<done.text[2]>> ELSE <<>>
        /\ DiagnosticsIn(done.group) =
               Len(SelectSeq(done.text[1] \o
                                (IF Len(done.text) >= 2 THEN done.text[2] ELSE <<>>),
                             LAMBDA it : it.ok))

\* C20's case: the text has an entry in its second segment and another
\* after the second newline, and only the first of the two is published.
C20_Witness ==
    /\ done.outcome = "output"
    /\ Len(done.text) >= 3
    /\ \E it \in Range(done.text[2]) : it.ok
    /\ \E it \in Range(done.text[3]) : it.ok
    /\ DiagnosticsIn(done.group) = 1
    /\ Len(sent) = 1

\* C22: every run in flight was started with the root file as the argument
\* of bean_check.py, whichever document the save event named.
C22_RunsCheckRootFile ==
    \A r \in runs : r.args = <<"bean_check.py", rootBeancountFile>>

\* C22's case: two runs in flight, started by saves of two documents, both
\* on the root file.
C22_Witness ==
    \E r1, r2 \in runs :
        /\ r1.doc # r2.doc
        /\ r1.args = r2.args
        /\ r1.args[2] = rootBeancountFile

=============================================================================
